---- MODULE Spec2Model ----
(***************************************************************************)
(* Anonymous community chat of OvaCare: the Socket.IO connection handler,  *)
(* the send_message handler, the REST mirror (/api/chat/messages,          *)
(* /api/chat/send and /api/chat/users-online) of backend/app.js, the       *)
(* Message schema, and the chat client's SocketContext (recent_messages /  *)
(* new_message handlers); and the period tracker's POST /api/period/start  *)
(* with the Period schema.                                                 *)
(*                                                                         *)
(* Every await of the server code is a separate step: the handler up to    *)
(* the await, the database executing the operation, and the handler's      *)
(* continuation are distinct actions, so other handlers interleave exactly *)
(* where the Node event loop lets them.                                    *)
(***************************************************************************)
EXTENDS Integers, Sequences, FiniteSets, TLC

\* ------------------------------------------------------------------ bounds
MaxSockets == 2        \* connections opened in one run
MaxOps == 2            \* send / REST requests issued in one run
MaxClock == 1          \* largest value Date.now() takes

\* ------------------------------------------------------- program constants
MaxContentLength == 500      \* content.length > 500 is rejected
SchemaMaxLength == 500       \* messageSchema.content.maxlength
SnapshotLimit == 50          \* .limit(50) of the recent_messages snapshot
DefaultLimit == 50           \* parseInt(req.query.limit) || 50
DefaultPage == 1             \* parseInt(req.query.page) || 1

NULL == "null"               \* JavaScript null / undefined
ANONYMOUS == "Anonymous"

\* ------------------------------------------------------------ value spaces
Users == {"u1", "u2"}                \* _id of the registered users (hex strings)
Sockets == 1..MaxSockets             \* socket.id of each connection

UserName(u) == IF u = "u1" THEN "Alice" ELSE "Bob"       \* User.name
UserEmail(u) == IF u = "u1" THEN "alice@x" ELSE "bob@x"  \* User.email

\* An ObjectId as mongoose stores it; a JWT payload carries its string form.
ObjectId(s) == [oid |-> s]
\* ObjectId.prototype.toString: the hex string
OidToString(o) == o.oid
\* String.prototype.toString
StrToString(s) == s

\* handshake.auth.token / the Authorization header: absent, forged, or signed.
NoToken == [kind |-> "none", userId |-> NULL]
BadToken == [kind |-> "forged", userId |-> "u1"]
SignedToken(u) == [kind |-> "signed", userId |-> u]
Tokens == {NoToken, BadToken} \cup {SignedToken(u) : u \in Users}

\* jwt.verify(token, JWT_SECRET, cb): the decoded payload, or an error.
JwtVerify(token) ==
    IF token.kind = "signed"
    THEN [err |-> FALSE, decoded |-> [userId |-> token.userId]]
    ELSE [err |-> TRUE, decoded |-> NULL]

\* ---------------------------------------------------------------- content
\* A string is a sequence of runs of equal characters: ws marks a run of
\* whitespace, n its length.  A JavaScript value that may be undefined is
\* [defined, s].
Run(ws, n) == [ws |-> ws, n |-> n]
Undefined == [defined |-> FALSE, s |-> <<>>]
Str(s) == [defined |-> TRUE, s |-> s]

RECURSIVE StrLen(_)
StrLen(s) == IF s = <<>> THEN 0 ELSE Head(s).n + StrLen(Tail(s))

RECURSIVE TrimStart(_)
TrimStart(s) ==
    IF s = <<>> THEN <<>>
    ELSE IF Head(s).ws THEN TrimStart(Tail(s)) ELSE s

RECURSIVE TrimEnd(_)
TrimEnd(s) ==
    IF s = <<>> THEN <<>>
    ELSE IF s[Len(s)].ws THEN TrimEnd(SubSeq(s, 1, Len(s) - 1)) ELSE s

\* String.prototype.trim
Trim(s) == TrimEnd(TrimStart(s))

\* The payloads a client can put in {content}: undefined, "", blanks, a
\* single character, and strings around the length limit, with and without
\* surrounding whitespace.
Contents ==
    { Undefined,
      Str(<<Run(TRUE, 3)>>),
      Str(<<Run(FALSE, MaxContentLength)>>),
      Str(<<Run(FALSE, MaxContentLength + 1)>>),
      Str(<<Run(TRUE, 1), Run(FALSE, MaxContentLength)>>),
      Str(<<Run(TRUE, 1), Run(FALSE, MaxContentLength - 2), Run(TRUE, 1)>>) }

\* ------------------------------------------------------- the Message model
\* new Message({content, userId, username, isAnonymous}): _id is assigned and
\* the timestamp default (Date.now) is taken when the document is built.
NewMessage(id, content, userId, username, ts) ==
    [ _id |-> id,
      content |-> content,
      userId |-> ObjectId(userId),
      username |-> username,
      isAnonymous |-> TRUE,
      timestamp |-> ts,
      isDeleted |-> FALSE ]

NoMessage == NewMessage(0, <<>>, NULL, NULL, 0)

\* messageSchema validation run by save(): content required and at most
\* 500 characters, userId required, username required.
SchemaValid(doc) ==
    /\ doc.content # <<>>
    /\ StrLen(doc.content) <= SchemaMaxLength
    /\ doc.userId.oid # NULL
    /\ doc.username # NULL

\* -------------------------------------------------- anonymization boundary
\* Mutant: the stored user name is passed through.
anonymizeMessage_storedName(message, currentUserId) ==
    [ _id |-> message._id,
      content |-> message.content,
      username |-> message.username,
      timestamp |-> message.timestamp,
      isAnonymous |-> TRUE,
      isOwnMessage |-> IF currentUserId # NULL
                       THEN OidToString(message.userId) = StrToString(currentUserId)
                       ELSE FALSE ]

\* Mutant: any non-null viewer is taken for the author.
anonymizeMessage_anyViewer(message, currentUserId) ==
    [ _id |-> message._id,
      content |-> message.content,
      username |-> ANONYMOUS,
      timestamp |-> message.timestamp,
      isAnonymous |-> TRUE,
      isOwnMessage |-> currentUserId # NULL ]

anonymizeMessage(message, currentUserId) ==
    [ _id |-> message._id,
      content |-> message.content,
      username |-> ANONYMOUS,
      timestamp |-> message.timestamp,
      isAnonymous |-> TRUE,
      isOwnMessage |-> IF currentUserId # NULL
                       THEN OidToString(message.userId) = StrToString(currentUserId)
                       ELSE FALSE ]

\* Array.prototype.map
RECURSIVE MapAnonymize(_, _)
MapAnonymize(msgs, viewer) ==
    IF msgs = <<>> THEN <<>>
    ELSE <<anonymizeMessage(Head(msgs), viewer)>> \o MapAnonymize(Tail(msgs), viewer)

\* Mutant: the list is left most-recent-first.
Reverse_identity(q) == q

\* Array.prototype.reverse
Reverse(q) == [i \in 1..Len(q) |-> q[Len(q) + 1 - i]]

\* ------------------------------------------------------------ the queries
\* Message.find({isDeleted: false}).sort({timestamp: -1}).limit(l).skip(k):
\* every ordering of the non-deleted documents by descending timestamp (the
\* sort key is the timestamp alone, so the order of equal timestamps is the
\* database's choice), cut to the window.
RECURSIVE Orderings(_)
Orderings(S) ==
    IF S = {} THEN { << >> }
    ELSE UNION { { <<m>> \o q : q \in Orderings(S \ {m}) } :
                 m \in { x \in S : \A y \in S : x.timestamp >= y.timestamp } }

Min(a, b) == IF a < b THEN a ELSE b

Window(q, limit, skip) == SubSeq(q, skip + 1, Min(Len(q), skip + limit))

\* Mutant: the isDeleted filter is missing.
FindRecent_withDeleted(docs, limit, skip) ==
    { Window(q, limit, skip) : q \in Orderings(docs) }

FindRecent(docs, limit, skip) ==
    { Window(q, limit, skip) : q \in Orderings({d \in docs : ~d.isDeleted}) }

\* ------------------------------------------------------------ validation
\* Mutant: the limit itself is rejected (>= for >).
ValidateSocketContent_offByOne(content) ==
    IF ~content.defined \/ content.s = <<>> \/ StrLen(Trim(content.s)) = 0
    THEN "empty"
    ELSE IF StrLen(content.s) >= MaxContentLength
    THEN "tooLong"
    ELSE "ok"

\* Mutant: the length test is missing.
ValidateSocketContent_noLimit(content) ==
    IF ~content.defined \/ content.s = <<>> \/ StrLen(Trim(content.s)) = 0
    THEN "empty"
    ELSE "ok"

\* send_message: !content || content.trim().length === 0, then
\* content.length > 500.
ValidateSocketContent(content) ==
    IF ~content.defined \/ content.s = <<>> \/ StrLen(Trim(content.s)) = 0
    THEN "empty"
    ELSE IF StrLen(content.s) > MaxContentLength
    THEN "tooLong"
    ELSE "ok"

\* POST /api/chat/send: the same two tests.
ValidateRestContent(content) ==
    IF ~content.defined \/ content.s = <<>> \/ StrLen(Trim(content.s)) = 0
    THEN "empty"
    ELSE IF StrLen(content.s) > MaxContentLength
    THEN "tooLong"
    ELSE "ok"

\* ------------------------------------------------------------------ state
VARIABLES
    status,          \* per socket: "idle", "refused", "open", "closed"
    handshakeToken,  \* per socket: socket.handshake.auth.token
    pc,              \* per socket: position of the io.on('connection') handler
    sockUserId,      \* per socket: socket.userId
    sockUserName,    \* per socket: socket.userName
    recentMessages,  \* per socket: the handler's local recentMessages
    connectedUsers,  \* the Map userId -> {socketId, name, email}
    store,           \* the Message collection
    pending,         \* the send / REST handlers suspended at an await
    issued,          \* requests received so far (the next document's _id)
    response,        \* the HTTP response in flight to the REST caller
    outbox,          \* per socket: events emitted to it, not yet handled
    messages,        \* per socket: the client's messages state
    now,             \* Date.now()
    periods,         \* the Period collection
    periodRequests,  \* the /api/period/start handlers suspended at an await
    input,           \* per socket: the chat page's message state (the text field)
    uplink,          \* per socket: packets the client emitted, not yet handled
    typingTimeout    \* per socket: the chat page's typing timer is running

vars == << status, handshakeToken, pc, sockUserId, sockUserName, recentMessages,
           connectedUsers, store, pending, issued, response, outbox,
           messages, now, periods, periodRequests, input, uplink,
           typingTimeout >>

connVars == << status, handshakeToken, pc, sockUserId, sockUserName, recentMessages >>
reqVars == << pending, issued, response >>
periodVars == << periods, periodRequests >>
clientVars == << input, uplink, typingTimeout >>
chatVars == << connVars, connectedUsers, store, pending, outbox, messages, now,
               clientVars >>

\* The outcome of an awaited Message.find: the documents, or a rejection.
QueryOk(docs) == [ok |-> TRUE, docs |-> docs]
QueryError == [ok |-> FALSE, docs |-> << >>]

\* An HTTP response: the endpoint, the status and the JSON body's fields.
NoResponse == [kind |-> "none", status |-> 0, error |-> NULL, success |-> FALSE,
               messages |-> << >>, hasMore |-> FALSE,
               hasCount |-> FALSE, count |-> 0, users |-> << >>]
ErrorResponse(kind, code, text) ==
    [NoResponse EXCEPT !.kind = kind, !.status = code, !.error = text]

Init ==
    /\ status = [c \in Sockets |-> "idle"]
    /\ handshakeToken = [c \in Sockets |-> NoToken]
    /\ pc = [c \in Sockets |-> "none"]
    /\ sockUserId = [c \in Sockets |-> NULL]
    /\ sockUserName = [c \in Sockets |-> NULL]
    /\ recentMessages = [c \in Sockets |-> QueryOk(<< >>)]
    /\ connectedUsers = [u \in {} |-> NULL]
    /\ store = {}
    /\ pending = [i \in {} |-> NULL]
    /\ issued = 0
    /\ response = NoResponse
    /\ outbox = [c \in Sockets |-> << >>]
    /\ messages = [c \in Sockets |-> << >>]
    /\ now = 0
    /\ periods = {}
    /\ periodRequests = [i \in {} |-> NULL]
    /\ input = [c \in Sockets |-> << >>]
    /\ uplink = [c \in Sockets |-> << >>]
    /\ typingTimeout = [c \in Sockets |-> FALSE]

\* ------------------------------------------------------------- the Map
MapSet(m, k, v) == [x \in DOMAIN m \cup {k} |-> IF x = k THEN v ELSE m[x]]
MapDelete(m, k) == [x \in DOMAIN m \ {k} |-> m[x]]

\* ------------------------------------------------------------- transport
\* Mutant: the event goes to every connected socket, as io.emit would send it.
EmitTo_everyone(ob, c, ev) ==
    [d \in Sockets |-> IF status[d] = "open" THEN Append(ob[d], ev) ELSE ob[d]]

\* socket.emit / io.to(id).emit reach a socket only while it is connected.
EmitTo(ob, c, ev) ==
    IF status[c] = "open" THEN [ob EXCEPT ![c] = Append(@, ev)] ELSE ob

\* io.emit: every connected socket of the namespace.
EmitAll(ob, ev) ==
    [c \in Sockets |-> IF status[c] = "open" THEN Append(ob[c], ev) ELSE ob[c]]

NewMessageEvent(wire) == [type |-> "new_message", payload |-> <<wire>>]
RecentMessagesEvent(wires) == [type |-> "recent_messages", payload |-> wires]
ErrorEvent(text) == [type |-> "error", payload |-> <<text>>]
TypingEvent(isTyping) ==
    [type |-> "user_typing",
     payload |-> << [username |-> "Someone", isTyping |-> isTyping] >>]

\* Mutant: the relay is io.emit, which includes the sender.
BroadcastFrom_all(ob, c, ev) ==
    [d \in Sockets |-> IF status[d] = "open" THEN Append(ob[d], ev) ELSE ob[d]]

\* socket.broadcast.emit: every connected socket except the sender's.
BroadcastFrom(ob, c, ev) ==
    [d \in Sockets |-> IF d # c /\ status[d] = "open" THEN Append(ob[d], ev) ELSE ob[d]]

\* ------------------------------------------------- authentication middleware
\* Mutant: the token is decoded without its signature being verified.
authenticateSocket_unverified(token) ==
    IF token.kind = "none"
    THEN [ok |-> FALSE, userId |-> NULL]
    ELSE [ok |-> TRUE, userId |-> token.userId]

\* authenticateSocket: next(err) refuses the connection, next() lets the
\* connection event fire with socket.userId set.
authenticateSocket(token) ==
    IF token.kind = "none"
    THEN [ok |-> FALSE, userId |-> NULL]
    ELSE IF JwtVerify(token).err
    THEN [ok |-> FALSE, userId |-> NULL]
    ELSE [ok |-> TRUE, userId |-> JwtVerify(token).decoded.userId]

\* A client opens a connection: the middleware runs, and on success the
\* connection handler runs up to its first await (User.findById).
Connect(c, token) ==
    /\ status[c] = "idle"
    /\ \A d \in Sockets : d < c => status[d] # "idle"    \* ids are handed out in order
    /\ handshakeToken' = [handshakeToken EXCEPT ![c] = token]
    /\ IF authenticateSocket(token).ok
       THEN /\ status' = [status EXCEPT ![c] = "open"]
            /\ sockUserId' = [sockUserId EXCEPT ![c] = authenticateSocket(token).userId]
            /\ pc' = [pc EXCEPT ![c] = "lookup"]
       ELSE /\ status' = [status EXCEPT ![c] = "refused"]
            /\ UNCHANGED << sockUserId, pc >>
    /\ UNCHANGED << periodVars, clientVars, sockUserName, recentMessages, connectedUsers, store, reqVars,
                    outbox, messages, now >>

\* User.findById resolves with the user: socket.userName and the
\* connectedUsers entry are set and Message.find is issued.
LookupFound(c) ==
    /\ pc[c] = "lookup"
    /\ sockUserName' = [sockUserName EXCEPT ![c] = UserName(sockUserId[c])]
    /\ connectedUsers' = MapSet(connectedUsers, sockUserId[c],
                                [ socketId |-> c,
                                  name |-> UserName(sockUserId[c]),
                                  email |-> UserEmail(sockUserId[c]) ])
    /\ pc' = [pc EXCEPT ![c] = "find"]
    /\ UNCHANGED << periodVars, clientVars, status, handshakeToken, sockUserId, recentMessages, store,
                    reqVars, outbox, messages, now >>

\* User.findById rejects, or resolves with null (user.name throws): the
\* catch logs, and the handlers are registered.
LookupFailed(c) ==
    /\ pc[c] = "lookup"
    /\ pc' = [pc EXCEPT ![c] = "active"]
    /\ UNCHANGED << periodVars, clientVars, status, handshakeToken, sockUserId, sockUserName,
                    recentMessages, connectedUsers, store, reqVars, outbox,
                    messages, now >>

\* The database runs the handler's Message.find.
FindExec(c) ==
    /\ pc[c] = "find"
    /\ \E r \in {QueryOk(q) : q \in FindRecent(store, SnapshotLimit, 0)} \cup {QueryError} :
           recentMessages' = [recentMessages EXCEPT ![c] = r]
    /\ pc' = [pc EXCEPT ![c] = "found"]
    /\ UNCHANGED << periodVars, clientVars, status, handshakeToken, sockUserId, sockUserName,
                    connectedUsers, store, reqVars, outbox, messages, now >>

\* The handler resumes: recent_messages is emitted (unless the query
\* failed) and the send_message / typing / ping / disconnect handlers are
\* registered.
FindResume(c) ==
    /\ pc[c] = "found"
    /\ outbox' = IF recentMessages[c].ok
                 THEN EmitTo(outbox, c,
                        RecentMessagesEvent(
                          Reverse(MapAnonymize(recentMessages[c].docs, sockUserId[c]))))
                 ELSE outbox
    /\ pc' = [pc EXCEPT ![c] = "active"]
    /\ recentMessages' = [recentMessages EXCEPT ![c] = QueryOk(<< >>)]
    /\ UNCHANGED << periodVars, clientVars, status, handshakeToken, sockUserId, sockUserName,
                    connectedUsers, store, reqVars, messages, now >>

\* The transport closes the socket.  The disconnect handler exists only
\* once the connection handler has registered it.
Disconnect(c) ==
    /\ status[c] = "open"
    /\ status' = [status EXCEPT ![c] = "closed"]
    /\ connectedUsers' = IF pc[c] = "active"
                         THEN MapDelete(connectedUsers, sockUserId[c])
                         ELSE connectedUsers
    /\ UNCHANGED << periodVars, clientVars, handshakeToken, pc, sockUserId, sockUserName, recentMessages,
                    store, reqVars, outbox, messages, now >>

\* ------------------------------------------------------------ requests
\* A handler suspended at an await: its position (stage) and its locals.
Handler(kind, sock, userId) ==
    [ kind |-> kind,            \* "socket", "rest", "get"
      sock |-> sock,            \* the sending socket (0 for REST)
      userId |-> userId,        \* socket.userId / req.user.userId
      stage |-> "lookup",       \* "lookup", "saving", "saved", "saveFailed",
                                \* "find", "found"
      content |-> <<>>,         \* POST: content.trim()
      message |-> NoMessage,    \* the document built by new Message(...)
      limit |-> 0, skip |-> 0,  \* GET: the computed window
      found |-> QueryError ]    \* GET: the query's result

\* The clock never runs backwards; a handler that reads it sees now or later.
ClockReadings == { t \in now..(now + 1) : t <= MaxClock }

\* ------------------------------------------------------- socket send path
\* socket.on('send_message'): validation, then new Message(...) and the
\* call of save().  The handler exists only once registered (pc = "active").
OnSendMessage(c, content) ==
    /\ status[c] = "open"
    /\ pc[c] = "active"
    /\ issued' = issued + 1
    /\ LET v == ValidateSocketContent(content)
       IN  IF v = "empty"
           THEN /\ outbox' = EmitTo(outbox, c, ErrorEvent("Message cannot be empty"))
                /\ UNCHANGED << pending, now >>
           ELSE IF v = "tooLong"
           THEN /\ outbox' = EmitTo(outbox, c,
                               ErrorEvent("Message too long (max 500 characters)"))
                /\ UNCHANGED << pending, now >>
           ELSE /\ \E ts \in ClockReadings :
                     /\ now' = ts
                     /\ pending' = MapSet(pending, issued + 1,
                          [Handler("socket", c, sockUserId[c]) EXCEPT
                             !.stage = "saving",
                             !.message = NewMessage(issued + 1, Trim(content.s),
                                           sockUserId[c], sockUserName[c], ts)])
                /\ outbox' = outbox
    /\ UNCHANGED << periodVars, connVars, connectedUsers, store, response, messages >>

\* A send_message packet whose content is any of the payloads a client can
\* put on the wire; the chat page's own state is not involved.
SendMessage(c, content) == OnSendMessage(c, content) /\ UNCHANGED clientVars

\* socket.on('typing'): the flag is relayed under the constant name.
OnTyping(c, isTyping) ==
    /\ status[c] = "open"
    /\ pc[c] = "active"
    /\ outbox' = BroadcastFrom(outbox, c, TypingEvent(isTyping))
    /\ UNCHANGED << periodVars, connVars, connectedUsers, store, reqVars, messages, now >>

Typing(c, isTyping) == OnTyping(c, isTyping) /\ UNCHANGED clientVars

\* message.save(): schema validation, then the insert; either can reject.
SaveExec(i) ==
    /\ i \in DOMAIN pending
    /\ pending[i].stage = "saving"
    /\ \/ /\ SchemaValid(pending[i].message)
          /\ store' = store \cup {pending[i].message}
          /\ pending' = [pending EXCEPT ![i].stage = "saved"]
       \/ /\ store' = store
          /\ pending' = [pending EXCEPT ![i].stage = "saveFailed"]
    /\ UNCHANGED << periodVars, clientVars, connVars, connectedUsers, issued, response, outbox,
                    messages, now >>

\* Mutant: the targeted copies are anonymized without a viewer.
TargetedFanout_noViewer(ob, message) ==
    [c \in Sockets |->
        IF status[c] = "open" /\ \E u \in DOMAIN connectedUsers : connectedUsers[u].socketId = c
        THEN Append(ob[c], NewMessageEvent(anonymizeMessage(message, NULL)))
        ELSE ob[c]]

\* Mutant: only the author's entry is served.
TargetedFanout_authorOnly(ob, message) ==
    [c \in Sockets |->
        IF status[c] = "open" /\ \E u \in DOMAIN connectedUsers :
                                    /\ connectedUsers[u].socketId = c
                                    /\ u = message.userId.oid
        THEN Append(ob[c], NewMessageEvent(anonymizeMessage(message, message.userId.oid)))
        ELSE ob[c]]

\* connectedUsers.forEach((userInfo, userId) =>
\*     io.to(userInfo.socketId).emit('new_message', anonymizeMessage(message, userId)))
TargetedFanout(ob, message) ==
    [c \in Sockets |->
        IF status[c] = "open" /\ \E u \in DOMAIN connectedUsers : connectedUsers[u].socketId = c
        THEN LET u == CHOOSE u \in DOMAIN connectedUsers : connectedUsers[u].socketId = c
             IN  Append(ob[c], NewMessageEvent(anonymizeMessage(message, u)))
        ELSE ob[c]]

\* Mutant: no fallback broadcast.
FallbackBroadcast_none(ob, message) == ob

\* io.emit('new_message', anonymizeMessage(message, null))
FallbackBroadcast(ob, message) ==
    EmitAll(ob, NewMessageEvent(anonymizeMessage(message, NULL)))

\* The send_message handler resumes after await message.save(): the fan-out
\* and the fallback broadcast, or the catch's error event.
SendResume(i) ==
    /\ i \in DOMAIN pending
    /\ pending[i].kind = "socket"
    /\ pending[i].stage \in {"saved", "saveFailed"}
    /\ outbox' = IF pending[i].stage = "saved"
                 THEN FallbackBroadcast(TargetedFanout(outbox, pending[i].message),
                                        pending[i].message)
                 ELSE EmitTo(outbox, pending[i].sock, ErrorEvent("Failed to send message"))
    /\ pending' = MapDelete(pending, i)
    /\ UNCHANGED << periodVars, clientVars, connVars, connectedUsers, store, issued, response,
                    messages, now >>

\* ------------------------------------------------------------- REST mirror
\* authenticateToken: 401 without a token, 403 when verification fails,
\* otherwise req.user is the decoded payload.
authenticateToken(token) ==
    IF token.kind = "none"
    THEN [status |-> 401, error |-> "Access token required", userId |-> NULL]
    ELSE IF JwtVerify(token).err
    THEN [status |-> 403, error |-> "Invalid or expired token", userId |-> NULL]
    ELSE [status |-> 0, error |-> NULL, userId |-> JwtVerify(token).decoded.userId]

\* In POST /api/chat/send `messageData` is a const of the forEach callback
\* (line 499); the handler's own scope, where res.json reads it (line 505),
\* has no such binding, so evaluating the response object throws a
\* ReferenceError that the handler's catch turns into the 500 answer.
MessageDataInScope == FALSE

RestSendReply(wire) ==
    IF MessageDataInScope
    THEN [NoResponse EXCEPT !.kind = "send", !.status = 200, !.success = TRUE,
                            !.messages = <<wire>>]
    ELSE ErrorResponse("send", 500, "Failed to send message")

\* POST /api/chat/send up to its first await (User.findById).
RestSend(token, content) ==
    /\ issued' = issued + 1
    /\ LET a == authenticateToken(token)
           v == ValidateRestContent(content)
       IN  IF a.status # 0
           THEN /\ response' = ErrorResponse("send", a.status, a.error)
                /\ pending' = pending
           ELSE IF v = "empty"
           THEN /\ response' = ErrorResponse("send", 400, "Message cannot be empty")
                /\ pending' = pending
           ELSE IF v = "tooLong"
           THEN /\ response' = ErrorResponse("send", 400,
                                     "Message too long (max 500 characters)")
                /\ pending' = pending
           ELSE /\ response' = response
                /\ pending' = MapSet(pending, issued + 1,
                     [Handler("rest", 0, a.userId) EXCEPT !.content = Trim(content.s)])
    /\ UNCHANGED << periodVars, clientVars, connVars, connectedUsers, store, outbox, messages, now >>

\* User.findById resolves with the user: new Message(...) and save().
RestLookupFound(i) ==
    /\ i \in DOMAIN pending
    /\ pending[i].kind = "rest"
    /\ pending[i].stage = "lookup"
    /\ \E ts \in ClockReadings :
          /\ now' = ts
          /\ pending' = [pending EXCEPT
                           ![i].stage = "saving",
                           ![i].message = NewMessage(i, pending[i].content,
                                            pending[i].userId,
                                            UserName(pending[i].userId), ts)]
    /\ UNCHANGED << periodVars, clientVars, connVars, connectedUsers, store, issued, response,
                    outbox, messages >>

\* User.findById rejects or resolves with null: the catch answers 500.
RestLookupFailed(i) ==
    /\ i \in DOMAIN pending
    /\ pending[i].kind = "rest"
    /\ pending[i].stage = "lookup"
    /\ response' = ErrorResponse("send", 500, "Failed to send message")
    /\ pending' = MapDelete(pending, i)
    /\ UNCHANGED << periodVars, clientVars, connVars, connectedUsers, store, issued, outbox, messages, now >>

\* POST /api/chat/send resumes after await message.save(): the fan-out over
\* connectedUsers, then the response.
RestSendResume(i) ==
    /\ i \in DOMAIN pending
    /\ pending[i].kind = "rest"
    /\ pending[i].stage \in {"saved", "saveFailed"}
    /\ IF pending[i].stage = "saved"
       THEN /\ outbox' = TargetedFanout(outbox, pending[i].message)
            /\ response' =
                   RestSendReply(anonymizeMessage(pending[i].message, pending[i].userId))
       ELSE /\ outbox' = outbox
            /\ response' = ErrorResponse("send", 500, "Failed to send message")
    /\ pending' = MapDelete(pending, i)
    /\ UNCHANGED << periodVars, clientVars, connVars, connectedUsers, store, issued, messages, now >>

\* A query-string parameter: absent, or the text of an integer.
NoParam == [defined |-> FALSE, n |-> 0]
Param(n) == [defined |-> TRUE, n |-> n]
QueryParams == {NoParam, Param(1), Param(2)}

\* parseInt(x) || d: NaN (absent) and 0 are falsy.
ParseIntOr(x, d) == IF ~x.defined \/ x.n = 0 THEN d ELSE x.n

\* GET /api/chat/messages up to its await (Message.find).
RestGet(token, qlimit, qpage) ==
    /\ issued' = issued + 1
    /\ LET a == authenticateToken(token)
           limit == ParseIntOr(qlimit, DefaultLimit)
           page == ParseIntOr(qpage, DefaultPage)
       IN  IF a.status # 0
           THEN /\ response' = ErrorResponse("get", a.status, a.error)
                /\ pending' = pending
           ELSE /\ response' = response
                /\ pending' = MapSet(pending, issued + 1,
                     [Handler("get", 0, a.userId) EXCEPT
                        !.stage = "find", !.limit = limit, !.skip = (page - 1) * limit])
    /\ UNCHANGED << periodVars, clientVars, connVars, connectedUsers, store, outbox, messages, now >>

\* The database runs the request's Message.find.
GetExec(i) ==
    /\ i \in DOMAIN pending
    /\ pending[i].kind = "get"
    /\ pending[i].stage = "find"
    /\ \E r \in {QueryOk(q) : q \in FindRecent(store, pending[i].limit, pending[i].skip)}
                \cup {QueryError} :
           pending' = [pending EXCEPT ![i].stage = "found", ![i].found = r]
    /\ UNCHANGED << periodVars, clientVars, connVars, connectedUsers, store, issued, response,
                    outbox, messages, now >>

\* The handler resumes: {messages, hasMore}, or the catch's 500.
GetResume(i) ==
    /\ i \in DOMAIN pending
    /\ pending[i].kind = "get"
    /\ pending[i].stage = "found"
    /\ response' =
           IF pending[i].found.ok
           THEN [NoResponse EXCEPT
                   !.kind = "get",
                   !.status = 200,
                   !.messages = Reverse(MapAnonymize(pending[i].found.docs,
                                                     pending[i].userId)),
                   !.hasMore = (Len(pending[i].found.docs) = pending[i].limit)]
           ELSE ErrorResponse("get", 500, "Failed to fetch messages")
    /\ pending' = MapDelete(pending, i)
    /\ UNCHANGED << periodVars, clientVars, connVars, connectedUsers, store, issued, outbox, messages, now >>

\* Mutant: the directory's size is reported.
UsersOnline_fromDirectory ==
    [count |-> Cardinality(DOMAIN connectedUsers), users |-> << >>]

\* The body of GET /api/chat/users-online: {count: 0, users: []}.
UsersOnline == [count |-> 0, users |-> << >>]

\* GET /api/chat/users-online: authenticateToken, then the synchronous
\* handler.
RestUsersOnline(token) ==
    /\ issued' = issued + 1
    /\ LET a == authenticateToken(token)
       IN  response' =
             IF a.status # 0
             THEN ErrorResponse("online", a.status, a.error)
             ELSE [NoResponse EXCEPT !.kind = "online", !.status = 200,
                                     !.hasCount = TRUE,
                                     !.count = UsersOnline.count,
                                     !.users = UsersOnline.users]
    /\ UNCHANGED << periodVars, clientVars, connVars, connectedUsers, store, pending, outbox,
                    messages, now >>

\* ------------------------------------------------------------ chat client
\* The handlers' normalisation: {...msg, username: 'Anonymous',
\* isAnonymous: true, isOwnMessage: msg.isOwnMessage || false}.
ClientNormalize(msg) ==
    [msg EXCEPT !.username = ANONYMOUS, !.isAnonymous = TRUE,
                !.isOwnMessage = (msg.isOwnMessage \/ FALSE)]

RECURSIVE MapNormalize(_)
MapNormalize(msgs) ==
    IF msgs = <<>> THEN <<>>
    ELSE <<ClientNormalize(Head(msgs))>> \o MapNormalize(Tail(msgs))

\* Mutant: the duplicate test is missing.
OnNewMessage_noDedupe(prev, message) == Append(prev, ClientNormalize(message))

\* newSocket.on('new_message'): append unless an entry with the _id exists.
OnNewMessage(prev, message) ==
    IF \E k \in 1..Len(prev) : prev[k]._id = ClientNormalize(message)._id
    THEN prev
    ELSE Append(prev, ClientNormalize(message))

\* newSocket.on('recent_messages'): replace the list.
OnRecentMessages(prev, recent) == MapNormalize(recent)

\* The client handles the next event the server sent on its socket.
ClientReceive(c) ==
    /\ outbox[c] # << >>
    /\ LET ev == Head(outbox[c])
       IN  messages' = [messages EXCEPT ![c] =
               IF ev.type = "new_message" THEN OnNewMessage(@, ev.payload[1])
               ELSE IF ev.type = "recent_messages" THEN OnRecentMessages(@, ev.payload)
               ELSE @]
    /\ outbox' = [outbox EXCEPT ![c] = Tail(@)]
    /\ UNCHANGED << periodVars, clientVars, connVars, connectedUsers, store, reqVars, now >>

\* ---------------------------------------------------------- the chat page
\* The text field takes at most maxLength characters.
InputMaxLength == 500

\* Texts a user can have in the field: nothing, blanks, and a message
\* that fills the field, blanks around it included; a longer one is cut out.
Drafts ==
    { s \in { << >>,
              <<Run(TRUE, 2)>>,
              <<Run(TRUE, 1), Run(FALSE, InputMaxLength - 2), Run(TRUE, 1)>>,
              <<Run(FALSE, InputMaxLength + 1)>> } : StrLen(s) <= InputMaxLength }

SendPacket(content) == [event |-> "send_message", content |-> Str(content), isTyping |-> FALSE]
TypingPacket(isTyping) == [event |-> "typing", content |-> Undefined, isTyping |-> isTyping]

\* handleTyping: the field's value, the typing flag and its two-second timer.
ClientType(c, value) ==
    /\ status[c] = "open"                         \* the field is disabled otherwise
    /\ input' = [input EXCEPT ![c] = value]
    /\ uplink' = [uplink EXCEPT ![c] = Append(@, TypingPacket(Trim(value) # << >>))]
    /\ typingTimeout' = [typingTimeout EXCEPT ![c] = (Trim(value) # << >>)]
    /\ UNCHANGED << periodVars, connVars, connectedUsers, store, reqVars, outbox,
                    messages, now >>

\* The timer's callback: setIsTyping(false).
TypingTimeout(c) ==
    /\ typingTimeout[c]
    /\ typingTimeout' = [typingTimeout EXCEPT ![c] = FALSE]
    /\ uplink' = [uplink EXCEPT ![c] = Append(@, TypingPacket(FALSE))]
    /\ UNCHANGED << periodVars, connVars, connectedUsers, store, reqVars, outbox,
                    messages, now, input >>

\* handleSendMessage: sendMessage(message) emits the trimmed text, then
\* setMessage('') and setIsTyping(false).
ClientSubmit(c) ==
    /\ Trim(input[c]) # << >>
    /\ status[c] = "open"
    /\ uplink' = [uplink EXCEPT ![c] =
                    Append(Append(@, SendPacket(Trim(input[c]))), TypingPacket(FALSE))]
    /\ input' = [input EXCEPT ![c] = << >>]
    /\ UNCHANGED << periodVars, connVars, connectedUsers, store, reqVars, outbox,
                    messages, now, typingTimeout >>

\* The server takes the next packet of a socket: it goes to the handler
\* registered for its event, or nowhere while none is registered.
ServerReceive(c) ==
    /\ uplink[c] # << >>
    /\ uplink' = [uplink EXCEPT ![c] = Tail(@)]
    /\ UNCHANGED << input, typingTimeout >>
    /\ LET packet == Head(uplink[c])
       IN  IF status[c] = "open" /\ pc[c] = "active"
           THEN IF packet.event = "send_message"
                THEN OnSendMessage(c, packet.content)
                ELSE OnTyping(c, packet.isTyping)
           ELSE UNCHANGED << periodVars, connVars, connectedUsers, store, reqVars,
                             outbox, messages, now >>

\* The REST caller takes the response off the wire.
HttpReceive ==
    /\ response # NoResponse
    /\ response' = NoResponse
    /\ UNCHANGED << periodVars, clientVars, connVars, connectedUsers, store, pending, issued, outbox,
                    messages, now >>

\* ---------------------------------------------------------- period tracker
\* Dates are counted in whole days; the requests of one run arrive on one day.
Today == 60                  \* new Date() of POST /api/period/start
MinCycleLength == 21         \* periodSchema.cycleLength.min
MaxCycleLength == 45         \* periodSchema.cycleLength.max
DefaultCycleLength == 30     \* the average of fewer than three cycles
AverageWindow == 6           \* .limit(6)
AverageMinimum == 3          \* periods.length < 3

\* req.body.startDate: absent, or a date.
NoDate == [defined |-> FALSE, day |-> 0]
Day(d) == [defined |-> TRUE, day |-> d]

\* A Number path that may be null.
NoNumber == [defined |-> FALSE, n |-> 0]
Number(n) == [defined |-> TRUE, n |-> n]

\* new Period({userId, startDate, predictedNextDate, isActive: true})
NewPeriod(id, userId, startDate, predictedNextDate) ==
    [ _id |-> id,
      userId |-> ObjectId(userId),
      startDate |-> startDate,
      cycleLength |-> NoNumber,
      predictedNextDate |-> predictedNextDate,
      isActive |-> TRUE ]

NoPeriod == NewPeriod(0, NULL, 0, 0)

\* periodSchema validation run by save(): cycleLength, when set, within
\* min..max; userId required.
PeriodValid(doc) ==
    /\ doc.userId.oid # NULL
    /\ doc.cycleLength.defined =>
          /\ doc.cycleLength.n >= MinCycleLength
          /\ doc.cycleLength.n <= MaxCycleLength

Abs(x) == IF x < 0 THEN -x ELSE x

\* periodSchema.methods.calculateCycleLength: Math.ceil(|next - start| / day)
calculateCycleLength(cycle, nextPeriodStartDate) ==
    Abs(nextPeriodStartDate - cycle.startDate)

RECURSIVE SumLengths(_)
SumLengths(S) ==
    IF S = {} THEN 0
    ELSE LET p == CHOOSE x \in S : TRUE
         IN  p.cycleLength.n + SumLengths(S \ {p})

\* .sort({startDate: -1}).limit(6): the latest six, ties being the
\* database's choice.
LatestCycles(S) ==
    IF Cardinality(S) <= AverageWindow THEN {S}
    ELSE { T \in SUBSET S :
             /\ Cardinality(T) = AverageWindow
             /\ \A x \in T, y \in S \ T : x.startDate >= y.startDate }

\* Math.round of a quotient of naturals
Round(num, den) == (2 * num + den) \div (2 * den)

\* periodSchema.statics.calculateAverageCycleLength: the values the query
\* and the reduce can produce.
calculateAverageCycleLength(docs, userId) ==
    { IF Cardinality(T) < AverageMinimum
      THEN DefaultCycleLength
      ELSE Round(SumLengths(T), Cardinality(T)) :
        T \in LatestCycles({ p \in docs : p.userId.oid = userId
                                          /\ p.cycleLength.defined }) }

\* periodSchema.statics.predictNextPeriod
predictNextPeriod(lastPeriodDate, cycleLength) == lastPeriodDate + cycleLength

\* A POST /api/period/start handler suspended at an await.
PeriodHandler(userId, startDate) ==
    [ userId |-> userId,            \* req.user.userId
      startDate |-> startDate,      \* periodStartDate
      stage |-> "findActive",       \* "findActive", "saveActive", "average", "saveNew"
      hasActive |-> FALSE,          \* activeCycle is not null
      activeCycle |-> NoPeriod,     \* the document findOne returned, as modified
      newPeriod |-> NoPeriod ]

\* POST /api/period/start up to its first await (Period.findOne).
PeriodStart(token, startDate) ==
    /\ issued' = issued + 1
    /\ LET a == authenticateToken(token)
       IN  IF a.status # 0
           THEN /\ response' = ErrorResponse("period", a.status, a.error)
                /\ periodRequests' = periodRequests
           ELSE IF ~startDate.defined
           THEN /\ response' = ErrorResponse("period", 400, "Start date is required")
                /\ periodRequests' = periodRequests
           ELSE IF startDate.day > Today
           THEN /\ response' = ErrorResponse("period", 400,
                                     "Start date cannot be in the future")
                /\ periodRequests' = periodRequests
           ELSE /\ response' = response
                /\ periodRequests' = MapSet(periodRequests, issued + 1,
                                            PeriodHandler(a.userId, startDate.day))
    /\ UNCHANGED << chatVars, periods >>

ActiveCycles(docs, userId) == { p \in docs : p.userId.oid = userId /\ p.isActive }

\* Period.findOne({userId, isActive: true}) resolves: null, or one of the
\* matching documents, which the handler closes (cycleLength, isActive =
\* false) and saves.
PeriodFindActive(i) ==
    /\ i \in DOMAIN periodRequests
    /\ periodRequests[i].stage = "findActive"
    /\ IF ActiveCycles(periods, periodRequests[i].userId) = {}
       THEN periodRequests' = [periodRequests EXCEPT ![i].stage = "average"]
       ELSE \E c \in ActiveCycles(periods, periodRequests[i].userId) :
              periodRequests' = [periodRequests EXCEPT
                 ![i].stage = "saveActive",
                 ![i].hasActive = TRUE,
                 ![i].activeCycle =
                     [c EXCEPT !.cycleLength =
                                  Number(calculateCycleLength(c, periodRequests[i].startDate)),
                               !.isActive = FALSE]]
    /\ UNCHANGED << chatVars, periods, issued, response >>

\* activeCycle.save(): validation, then the update of the modified paths; a
\* ValidationError is caught and answered 500.
PeriodSaveActive(i) ==
    /\ i \in DOMAIN periodRequests
    /\ periodRequests[i].stage = "saveActive"
    /\ IF PeriodValid(periodRequests[i].activeCycle)
       THEN /\ periods' =
                 { IF p._id = periodRequests[i].activeCycle._id
                   THEN [p EXCEPT !.cycleLength = periodRequests[i].activeCycle.cycleLength,
                                  !.isActive = FALSE]
                   ELSE p : p \in periods }
            /\ periodRequests' = [periodRequests EXCEPT ![i].stage = "average"]
            /\ response' = response
       ELSE /\ periods' = periods
            /\ periodRequests' = MapDelete(periodRequests, i)
            /\ response' = ErrorResponse("period", 500, "Failed to log period")
    /\ UNCHANGED << chatVars, issued >>

\* Period.calculateAverageCycleLength resolves; predictNextPeriod and
\* new Period(...) follow, then newPeriod.save() is called.
PeriodAverage(i) ==
    /\ i \in DOMAIN periodRequests
    /\ periodRequests[i].stage = "average"
    /\ \E avg \in calculateAverageCycleLength(periods, periodRequests[i].userId) :
          periodRequests' = [periodRequests EXCEPT
             ![i].stage = "saveNew",
             ![i].newPeriod = NewPeriod(i, periodRequests[i].userId,
                                        periodRequests[i].startDate,
                                        predictNextPeriod(periodRequests[i].startDate, avg))]
    /\ UNCHANGED << chatVars, periods, issued, response >>

\* newPeriod.save() inserts the document and the handler answers 201.
PeriodSaveNew(i) ==
    /\ i \in DOMAIN periodRequests
    /\ periodRequests[i].stage = "saveNew"
    /\ IF PeriodValid(periodRequests[i].newPeriod)
       THEN /\ periods' = periods \cup {periodRequests[i].newPeriod}
            /\ response' = [NoResponse EXCEPT !.kind = "period", !.status = 201]
       ELSE /\ periods' = periods
            /\ response' = ErrorResponse("period", 500, "Failed to log period")
    /\ periodRequests' = MapDelete(periodRequests, i)
    /\ UNCHANGED << chatVars, issued >>

\* ------------------------------------------------------------------- spec
\* The contents and query parameters the clients of the full system send;
\* the validation boundary has its own specification below.
MainContents ==
    { Str(<<Run(TRUE, 3)>>),
      Str(<<Run(TRUE, 1), Run(FALSE, MaxContentLength - 2), Run(TRUE, 1)>>) }
MainParams == {NoParam}

\* Every event and response in flight has been handled by its client.
Quiescent ==
    /\ \A c \in Sockets : outbox[c] = << >>
    /\ response = NoResponse

\* A client's handlers read and write only that client's state, so they
\* commute with every server step: what is in flight is handled, one event
\* at a time, before the server's next step.
Next ==
    \/ \E c \in Sockets : ClientReceive(c)
    \/ HttpReceive
    \/ \E c \in Sockets, t \in Tokens : Quiescent /\ Connect(c, t)
    \/ \E c \in Sockets : Quiescent /\ LookupFound(c)
    \/ \E c \in Sockets : Quiescent /\ LookupFailed(c)
    \/ \E c \in Sockets : Quiescent /\ FindExec(c)
    \/ \E c \in Sockets : Quiescent /\ FindResume(c)
    \/ \E c \in Sockets : Quiescent /\ Disconnect(c)
    \/ \E c \in Sockets, x \in MainContents :
          Quiescent /\ issued < MaxOps /\ SendMessage(c, x)
    \/ \E i \in 1..MaxOps : Quiescent /\ SaveExec(i)
    \/ \E i \in 1..MaxOps : Quiescent /\ SendResume(i)
    \/ \E t \in Tokens, x \in MainContents :
          Quiescent /\ issued < MaxOps /\ RestSend(t, x)
    \/ \E i \in 1..MaxOps : Quiescent /\ RestLookupFound(i)
    \/ \E i \in 1..MaxOps : Quiescent /\ RestLookupFailed(i)
    \/ \E i \in 1..MaxOps : Quiescent /\ RestSendResume(i)
    \/ \E t \in Tokens, l \in MainParams, p \in MainParams :
          Quiescent /\ issued < MaxOps /\ RestGet(t, l, p)
    \/ \E i \in 1..MaxOps : Quiescent /\ GetExec(i)
    \/ \E i \in 1..MaxOps : Quiescent /\ GetResume(i)

Spec == Init /\ [][Next]_vars

\* The validation boundary: authenticated clients sending every content of
\* Contents over the socket and through POST /api/chat/send.
SignedTokens == { SignedToken(u) : u \in Users }

NextValidation ==
    \/ \E c \in Sockets : ClientReceive(c)
    \/ HttpReceive
    \/ \E c \in Sockets, t \in SignedTokens : Quiescent /\ Connect(c, t)
    \/ \E c \in Sockets : Quiescent /\ LookupFound(c)
    \/ \E c \in Sockets : Quiescent /\ FindExec(c)
    \/ \E c \in Sockets : Quiescent /\ FindResume(c)
    \/ \E c \in Sockets, x \in Contents :
          Quiescent /\ issued < MaxOps /\ SendMessage(c, x)
    \/ \E i \in 1..MaxOps : Quiescent /\ SaveExec(i)
    \/ \E i \in 1..MaxOps : Quiescent /\ SendResume(i)
    \/ \E t \in SignedTokens, x \in Contents :
          Quiescent /\ issued < MaxOps /\ RestSend(t, x)
    \/ \E i \in 1..MaxOps : Quiescent /\ RestLookupFound(i)
    \/ \E i \in 1..MaxOps : Quiescent /\ RestLookupFailed(i)
    \/ \E i \in 1..MaxOps : Quiescent /\ RestSendResume(i)

SpecValidation == Init /\ [][NextValidation]_vars

\* The history reads: the collection holds earlier messages when the server
\* starts (none, a few, or one more than the snapshot takes), the two latest
\* of the same millisecond and one soft-deleted; authenticated clients
\* connect, receive the snapshot and send.
StoredMessage(k) ==
    NewMessage(-k, <<Run(FALSE, 1)>>, IF k % 2 = 0 THEN "u1" ELSE "u2",
               UserName(IF k % 2 = 0 THEN "u1" ELSE "u2"),
               IF k = 1 THEN -2 ELSE -k)

DeletedMessage == [NewMessage(-1000, <<Run(FALSE, 2)>>, "u1", UserName("u1"), 0)
                       EXCEPT !.isDeleted = TRUE]

History(n) == { StoredMessage(k) : k \in 1..n } \cup {DeletedMessage}

InitialStores == { {}, History(3), History(SnapshotLimit + 1) }

HistoryContents == { Str(<<Run(FALSE, MaxContentLength)>>) }

InitHistory ==
    /\ status = [c \in Sockets |-> "idle"]
    /\ handshakeToken = [c \in Sockets |-> NoToken]
    /\ pc = [c \in Sockets |-> "none"]
    /\ sockUserId = [c \in Sockets |-> NULL]
    /\ sockUserName = [c \in Sockets |-> NULL]
    /\ recentMessages = [c \in Sockets |-> QueryOk(<< >>)]
    /\ connectedUsers = [u \in {} |-> NULL]
    /\ store \in InitialStores
    /\ pending = [i \in {} |-> NULL]
    /\ issued = 0
    /\ response = NoResponse
    /\ outbox = [c \in Sockets |-> << >>]
    /\ messages = [c \in Sockets |-> << >>]
    /\ now = 0
    /\ periods = {}
    /\ periodRequests = [i \in {} |-> NULL]
    /\ input = [c \in Sockets |-> << >>]
    /\ uplink = [c \in Sockets |-> << >>]
    /\ typingTimeout = [c \in Sockets |-> FALSE]

NextSnapshot ==
    \/ \E c \in Sockets : ClientReceive(c)
    \/ \E c \in Sockets, t \in SignedTokens : Quiescent /\ Connect(c, t)
    \/ \E c \in Sockets : Quiescent /\ LookupFound(c)
    \/ \E c \in Sockets : Quiescent /\ LookupFailed(c)
    \/ \E c \in Sockets : Quiescent /\ FindExec(c)
    \/ \E c \in Sockets : Quiescent /\ FindResume(c)
    \/ \E c \in Sockets, x \in HistoryContents :
          Quiescent /\ issued < MaxOps /\ SendMessage(c, x)
    \/ \E i \in 1..MaxOps : Quiescent /\ SaveExec(i)
    \/ \E i \in 1..MaxOps : Quiescent /\ SendResume(i)

SpecSnapshot == InitHistory /\ [][NextSnapshot]_vars

\* The page reads of GET /api/chat/messages over the same collections.
NextPages ==
    \/ HttpReceive
    \/ \E t \in Tokens, l \in QueryParams, p \in QueryParams :
          Quiescent /\ issued < MaxOps /\ RestGet(t, l, p)
    \/ \E i \in 1..MaxOps : Quiescent /\ GetExec(i)
    \/ \E i \in 1..MaxOps : Quiescent /\ GetResume(i)

SpecPages == InitHistory /\ [][NextPages]_vars

\* The presence directory and the online count: connections come and go
\* while GET /api/chat/users-online is called.
NextPresence ==
    \/ \E c \in Sockets : ClientReceive(c)
    \/ HttpReceive
    \/ \E c \in Sockets, t \in Tokens : Quiescent /\ Connect(c, t)
    \/ \E c \in Sockets : Quiescent /\ LookupFound(c)
    \/ \E c \in Sockets : Quiescent /\ LookupFailed(c)
    \/ \E c \in Sockets : Quiescent /\ FindExec(c)
    \/ \E c \in Sockets : Quiescent /\ FindResume(c)
    \/ \E c \in Sockets : Quiescent /\ Disconnect(c)
    \/ \E t \in Tokens : Quiescent /\ issued < MaxOps /\ RestUsersOnline(t)

SpecPresence == Init /\ [][NextPresence]_vars

\* Paging through the history while messages are posted: one request more
\* than elsewhere, so that a post fits between two page reads.
PagingOps == MaxOps + 1
PagingParams == QueryParams \ {NoParam}

NextPaging ==
    \/ HttpReceive
    \/ \E t \in SignedTokens, l \in PagingParams, p \in PagingParams :
          Quiescent /\ issued < PagingOps /\ RestGet(t, l, p)
    \/ \E i \in 1..PagingOps : Quiescent /\ GetExec(i)
    \/ \E i \in 1..PagingOps : Quiescent /\ GetResume(i)
    \/ \E t \in SignedTokens, x \in HistoryContents :
          Quiescent /\ issued < PagingOps /\ RestSend(t, x)
    \/ \E i \in 1..PagingOps : Quiescent /\ RestLookupFound(i)
    \/ \E i \in 1..PagingOps : Quiescent /\ SaveExec(i)
    \/ \E i \in 1..PagingOps : Quiescent /\ RestSendResume(i)

\* The short histories: a page of one or two messages ends inside them.
InitPaging == InitHistory /\ Cardinality(store) <= SnapshotLimit

SpecPaging == InitPaging /\ [][NextPaging]_vars

\* The typing relay: connections over a store with history, and typing
\* events from the registered ones.
NextTyping ==
    \/ \E c \in Sockets : ClientReceive(c)
    \/ \E c \in Sockets, t \in SignedTokens : Quiescent /\ Connect(c, t)
    \/ \E c \in Sockets : Quiescent /\ LookupFound(c)
    \/ \E c \in Sockets : Quiescent /\ LookupFailed(c)
    \/ \E c \in Sockets : Quiescent /\ FindExec(c)
    \/ \E c \in Sockets : Quiescent /\ FindResume(c)
    \/ \E c \in Sockets : Quiescent /\ Disconnect(c)
    \/ \E c \in Sockets, b \in BOOLEAN : Quiescent /\ Typing(c, b)

SpecTyping == InitHistory /\ [][NextTyping]_vars

\* Every packet a chat page emitted has been taken by the server.
UplinkEmpty == \A c \in Sockets : uplink[c] = << >>

\* The chat page in front of the socket: the user types and submits, the
\* packets reach the server in the order they were emitted, and the users
\* act again once the packets on their way have been taken.
NextClient ==
    \/ \E c \in Sockets : ClientReceive(c)
    \/ \E c \in Sockets, t \in SignedTokens : Quiescent /\ Connect(c, t)
    \/ \E c \in Sockets : Quiescent /\ LookupFound(c)
    \/ \E c \in Sockets : Quiescent /\ FindExec(c)
    \/ \E c \in Sockets : Quiescent /\ FindResume(c)
    \/ \E c \in Sockets, v \in Drafts :
          Quiescent /\ UplinkEmpty /\ ClientType(c, v)
    \/ \E c \in Sockets : Quiescent /\ UplinkEmpty /\ TypingTimeout(c)
    \/ \E c \in Sockets :
          Quiescent /\ UplinkEmpty /\ issued < MaxOps /\ ClientSubmit(c)
    \/ \E c \in Sockets : Quiescent /\ ServerReceive(c)
    \/ \E i \in 1..MaxOps : Quiescent /\ SaveExec(i)
    \/ \E i \in 1..MaxOps : Quiescent /\ SendResume(i)

SpecClient == Init /\ [][NextClient]_vars

\* The period tracker: users with and without earlier cycles log periods.
PeriodDates == { NoDate, Day(10), Day(40), Day(60), Day(61) }

ClosedCycle(id, userId, startDate, length) ==
    [NewPeriod(id, userId, startDate, predictNextPeriod(startDate, DefaultCycleLength))
        EXCEPT !.cycleLength = Number(length), !.isActive = FALSE]

PastCycles ==
    { ClosedCycle(-1, "u1", -90, 28),
      ClosedCycle(-2, "u1", -62, 30),
      NewPeriod(-3, "u1", -32, predictNextPeriod(-32, DefaultCycleLength)) }

InitPeriod ==
    /\ status = [c \in Sockets |-> "idle"]
    /\ handshakeToken = [c \in Sockets |-> NoToken]
    /\ pc = [c \in Sockets |-> "none"]
    /\ sockUserId = [c \in Sockets |-> NULL]
    /\ sockUserName = [c \in Sockets |-> NULL]
    /\ recentMessages = [c \in Sockets |-> QueryOk(<< >>)]
    /\ connectedUsers = [u \in {} |-> NULL]
    /\ store = {}
    /\ pending = [i \in {} |-> NULL]
    /\ issued = 0
    /\ response = NoResponse
    /\ outbox = [c \in Sockets |-> << >>]
    /\ messages = [c \in Sockets |-> << >>]
    /\ now = 0
    /\ periods \in { {}, PastCycles }
    /\ periodRequests = [i \in {} |-> NULL]
    /\ input = [c \in Sockets |-> << >>]
    /\ uplink = [c \in Sockets |-> << >>]
    /\ typingTimeout = [c \in Sockets |-> FALSE]

NextPeriod ==
    \/ HttpReceive
    \/ \E t \in Tokens, d \in PeriodDates :
          Quiescent /\ issued < MaxOps /\ PeriodStart(t, d)
    \/ \E i \in 1..MaxOps : Quiescent /\ PeriodFindActive(i)
    \/ \E i \in 1..MaxOps : Quiescent /\ PeriodSaveActive(i)
    \/ \E i \in 1..MaxOps : Quiescent /\ PeriodAverage(i)
    \/ \E i \in 1..MaxOps : Quiescent /\ PeriodSaveNew(i)

SpecPeriod == InitPeriod /\ [][NextPeriod]_vars

\* ================================================================= claims
Range(q) == { q[k] : k \in 1..Len(q) }

\* Every message object on its way to a client: in an emitted event, or in
\* the body of an HTTP response.
EventMessages(c) ==
    UNION { Range(outbox[c][k].payload) :
              k \in { j \in 1..Len(outbox[c]) :
                         outbox[c][j].type \in {"new_message", "recent_messages"} } }

WireMessages ==
    UNION { EventMessages(c) : c \in Sockets } \cup Range(response.messages)

WireFields == {"_id", "content", "username", "timestamp", "isAnonymous", "isOwnMessage"}

Registered(c) == \E u \in DOMAIN connectedUsers : connectedUsers[u].socketId = c
Active(c) == status[c] = "open" /\ pc[c] = "active"

\* C1 - Anonymity invariant: every message object the server sends, on every
\* path (recent_messages, targeted and fallback new_message, the GET and POST
\* responses), has username 'Anonymous', whoever the viewer is, and carries
\* neither a userId field nor a stored user name.
C1_Anonymity ==
    \A w \in WireMessages :
        /\ w.username = ANONYMOUS
        /\ w.username \notin { UserName(u) : u \in Users }
        /\ DOMAIN w = WireFields
        /\ DOMAIN w \cap {"userId", "email", "name"} = {}

\* The author's own targeted copy is in flight, marked as the viewer's own.
C1_Witness ==
    \E c \in Sockets :
        /\ outbox[c] # << >>
        /\ Head(outbox[c]).type = "new_message"
        /\ Head(outbox[c]).payload[1].isOwnMessage
        /\ \E m \in store : m._id = Head(outbox[c]).payload[1]._id
                            /\ m.username = UserName(sockUserId[c])

\* C2 - Self-flag correctness: for every message (stored, or built by a
\* handler for the identity that sent it) and every viewer, isOwnMessage is
\* true exactly when the viewer is non-null and is the author's identity.
Viewers == Users \cup {NULL}

C2_SelfFlag ==
    /\ \A m \in store, v \in Viewers :
          anonymizeMessage(m, v).isOwnMessage <=> (v # NULL /\ v = m.userId.oid)
    /\ \A i \in DOMAIN pending, v \in Viewers :
          pending[i].stage \in {"saving", "saved"} =>
             ( anonymizeMessage(pending[i].message, v).isOwnMessage
                 <=> (v # NULL /\ v = pending[i].userId) )

\* A saved message whose flag is set for its author and clear for others.
C2_Witness ==
    \E i \in DOMAIN pending :
        /\ pending[i].stage = "saved"
        /\ pending[i].message \in store
        /\ anonymizeMessage(pending[i].message, pending[i].userId).isOwnMessage
        /\ \E v \in Users : ~anonymizeMessage(pending[i].message, v).isOwnMessage
        /\ ~anonymizeMessage(pending[i].message, NULL).isOwnMessage

\* The events a step appends to a socket's outbox.
NewEvents(c) == SubSeq(outbox'[c], Len(outbox[c]) + 1, Len(outbox'[c]))

\* The step in which send_message handler i fans its saved message out.
FanOutStep(i) ==
    /\ i \in DOMAIN pending
    /\ pending[i].kind = "socket"
    /\ pending[i].stage = "saved"
    /\ SendResume(i)

\* C3 as stated - with A and B active and of distinct identities, A's send
\* gives each of them exactly one new_message, A's with isOwnMessage=true
\* and B's with isOwnMessage=false.
C3_ExactlyOne ==
    [][ \A i \in 1..MaxOps : FanOutStep(i) =>
          \A a, b \in Sockets :
             ( /\ a = pending[i].sock
               /\ Active(a) /\ Active(b)
               /\ sockUserId[a] # sockUserId[b] )
             => /\ Len(NewEvents(a)) = 1
                /\ Len(NewEvents(b)) = 1
                /\ NewEvents(a)[1].payload[1].isOwnMessage
                /\ ~NewEvents(b)[1].payload[1].isOwnMessage ]_vars

\* C3 amended - each of A and B gets the fallback new_message
\* (isOwnMessage=false), preceded by one targeted new_message when its socket
\* is the connectedUsers entry of its identity: one or two events, all
\* 'Anonymous' and for the sent message; A's targeted copy has
\* isOwnMessage=true, every copy B gets has isOwnMessage=false.
C3_TargetedPlusFallback ==
    [][ \A i \in 1..MaxOps : FanOutStep(i) =>
          \A a, b \in Sockets :
             ( /\ a = pending[i].sock
               /\ Active(a) /\ Active(b)
               /\ sockUserId[a] # sockUserId[b] )
             => /\ \A c \in {a, b} :
                     /\ Len(NewEvents(c)) = IF Registered(c) THEN 2 ELSE 1
                     /\ \A k \in 1..Len(NewEvents(c)) :
                           /\ NewEvents(c)[k].type = "new_message"
                           /\ NewEvents(c)[k].payload[1]._id = pending[i].message._id
                           /\ NewEvents(c)[k].payload[1].username = ANONYMOUS
                     /\ ~NewEvents(c)[Len(NewEvents(c))].payload[1].isOwnMessage
                /\ Registered(a) => NewEvents(a)[1].payload[1].isOwnMessage
                /\ \A k \in 1..Len(NewEvents(b)) :
                      ~NewEvents(b)[k].payload[1].isOwnMessage ]_vars

\* A and B, active and of distinct identities, each hold the targeted and
\* the fallback copy of A's message.
C3_Witness ==
    \E a, b \in Sockets :
        /\ Active(a) /\ Active(b)
        /\ sockUserId[a] # sockUserId[b]
        /\ Len(outbox[a]) = 2 /\ Len(outbox[b]) = 2
        /\ outbox[a][1].type = "new_message" /\ outbox[b][1].type = "new_message"
        /\ outbox[a][1].payload[1].isOwnMessage
        /\ ~outbox[a][2].payload[1].isOwnMessage
        /\ ~outbox[b][1].payload[1].isOwnMessage
        /\ \E m \in store : /\ m._id = outbox[a][1].payload[1]._id
                            /\ m.userId.oid = sockUserId[a]

\* C4 - Idempotent delivery: handling a new_message leaves exactly one entry
\* with its _id in the client's list, and handling one whose _id is already
\* listed leaves the list unchanged.
Count(q, id) == Cardinality({ k \in 1..Len(q) : q[k]._id = id })

C4_Idempotent ==
    [][ \A c \in Sockets :
          ( /\ ClientReceive(c)
            /\ Head(outbox[c]).type = "new_message" )
          => /\ Count(messages'[c], Head(outbox[c]).payload[1]._id) = 1
             /\ Count(messages[c], Head(outbox[c]).payload[1]._id) > 0
                   => messages'[c] = messages[c] ]_vars

\* The client lists a message once and its second copy is arriving.
C4_Witness ==
    \E c \in Sockets :
        /\ outbox[c] # << >>
        /\ Head(outbox[c]).type = "new_message"
        /\ Count(messages[c], Head(outbox[c]).payload[1]._id) = 1

\* C7 as stated - presence lifecycle: when an authenticated connection's
\* handshake completes (the snapshot is sent and the handlers are
\* registered) its identity is a key of connectedUsers, and when its
\* disconnect is processed its identity is no longer a key.
C7_PresenceLifecycle ==
    [][ \A c \in Sockets :
          /\ ( /\ status[c] = "open"
               /\ pc[c] = "found" /\ recentMessages[c].ok
               /\ pc'[c] = "active" )
             => sockUserId[c] \in DOMAIN connectedUsers'
          /\ ( status[c] = "open" /\ status'[c] = "closed" )
             => sockUserId[c] \notin DOMAIN connectedUsers' ]_vars

\* C8 - No activity without authentication: a connection whose token is
\* missing or fails verification is never connected, never has a
\* connectedUsers entry, is never sent an event, and never has a send handled;
\* a connection whose handlers are registered was authenticated as the user
\* its token names.
C8_NoActivityWithoutAuth ==
    \A c \in Sockets :
        /\ handshakeToken[c].kind # "signed" =>
              /\ status[c] \in {"idle", "refused"}
              /\ pc[c] = "none"
              /\ sockUserId[c] = NULL
              /\ ~Registered(c)
              /\ outbox[c] = << >>
              /\ messages[c] = << >>
              /\ \A i \in DOMAIN pending : pending[i].sock # c
        /\ pc[c] # "none" =>
              /\ handshakeToken[c].kind = "signed"
              /\ sockUserId[c] = handshakeToken[c].userId
              /\ sockUserId[c] \in Users

\* A forged and a missing token have been refused while an authenticated
\* connection is being sent a message.
C8_Witness ==
    \E c, d \in Sockets :
        /\ status[c] = "refused"
        /\ handshakeToken[c].kind \in {"forged", "none"}
        /\ status[d] = "open"
        /\ outbox[d] # << >>
        /\ Head(outbox[d]).type = "new_message"

\* The members of connectedUsers, as the sockets a fan-out reaches.
Entries == { u \in DOMAIN connectedUsers : status[connectedUsers[u].socketId] = "open" }

\* C9 as stated - REST send success: when the store write of an
\* authenticated, valid POST /api/chat/send has succeeded, the handler emits
\* new_message to every connectedUsers entry, anonymized for that entry, and
\* answers {success: true, message: <the anonymized message>}.
C9_RestSendSuccess ==
    [][ \A i \in 1..MaxOps :
          ( /\ i \in DOMAIN pending
            /\ pending[i].kind = "rest"
            /\ pending[i].stage = "saved"
            /\ RestSendResume(i) )
          => /\ pending[i].message \in store
             /\ \A u \in Entries :
                   NewEvents(connectedUsers[u].socketId) =
                       << NewMessageEvent(anonymizeMessage(pending[i].message, u)) >>
             /\ response'.status = 200
             /\ response'.success
             /\ response'.messages =
                   << anonymizeMessage(pending[i].message, pending[i].userId) >> ]_vars

\* What the claims call a content: missing, empty after trimming, its length.
Missing(x) == ~x.defined
Blank(x) == x.defined /\ StrLen(Trim(x.s)) = 0
Length(x) == StrLen(x.s)

\* A send_message / POST handler has passed validation in this step: it
\* has built the request's handler record and gone on to its await.
Accepted == issued' = issued + 1 /\ (issued + 1) \in DOMAIN pending'
Rejected == issued' = issued + 1 /\ pending' = pending /\ store' = store

\* C5 - Length boundary: on the socket path and on POST /api/chat/send, a
\* content of exactly 500 characters (not all whitespace) is accepted and its
\* trimmed text is what the store write persists; 501 characters are
\* rejected, and so is a content of whitespace only.
C5_LengthBoundary ==
    [][ /\ \A x \in Contents :
             ( (\E c \in Sockets : SendMessage(c, x))
               \/ (\E t \in SignedTokens : RestSend(t, x)) )
             => /\ (~Missing(x) /\ ~Blank(x) /\ Length(x) = 500) => Accepted
                /\ (~Missing(x) /\ Length(x) = 501) => Rejected
                /\ Blank(x) => Rejected
        /\ \A i \in 1..MaxOps :
             ( SaveExec(i) /\ pending'[i].stage = "saved" )
             => \E m \in store' \ store :
                   /\ m._id = i
                   /\ m.content = pending[i].message.content
                   /\ StrLen(m.content) \in 1..500 ]_vars

\* A 500-character message is in the store.
C5_Witness == \E m \in store : StrLen(m.content) = 500

\* C6 as stated - trim-then-validate: a send is accepted exactly when the
\* content's length after trimming is between 1 and 500.
C6_TrimThenValidate ==
    [][ \A x \in Contents :
          ( (\E c \in Sockets : SendMessage(c, x))
            \/ (\E t \in SignedTokens : RestSend(t, x)) )
          => ( Accepted <=> (~Missing(x) /\ StrLen(Trim(x.s)) \in 1..500) ) ]_vars

\* C10 - Rejected send is local and non-destructive: a send_message whose
\* content is missing, empty after trimming or longer than 500 characters
\* puts exactly one error event on the sender's socket and nothing on any
\* other, stores nothing, starts no write, and leaves connectedUsers and the
\* sender's connection (still open, handlers registered) as they were.
C10_RejectedSendIsLocal ==
    [][ \A c \in Sockets, x \in Contents :
          ( SendMessage(c, x) /\ (Missing(x) \/ Blank(x) \/ Length(x) > 500) )
          => /\ Len(NewEvents(c)) = 1
             /\ NewEvents(c)[1].type = "error"
             /\ \A d \in Sockets \ {c} : outbox'[d] = outbox[d]
             /\ store' = store
             /\ pending' = pending
             /\ connectedUsers' = connectedUsers
             /\ status' = status /\ pc' = pc
             /\ Active(c) /\ status'[c] = "open" /\ pc'[c] = "active" ]_vars

\* The sender of a rejected message holds the error event, is still active,
\* and a second connection is open and holds nothing.
C10_Witness ==
    \E c, d \in Sockets :
        /\ c # d
        /\ Active(c) /\ Active(d)
        /\ Len(outbox[c]) = 1
        /\ outbox[c][1] = ErrorEvent("Message too long (max 500 characters)")
        /\ outbox[d] = << >>
        /\ issued = 1
        /\ pending = [i \in {} |-> NULL]

\* The non-deleted documents of the collection.
Live == { m \in store : ~m.isDeleted }

\* A result of the recent query, as the claims describe it: the documents
\* at positions skip+1 .. skip+limit of a most-recent-first list of the
\* non-deleted documents.  A document can stand at position n exactly when
\* fewer than n documents are more recent than it and at least n are at
\* least as recent.
IsRecentWindow(docs, limit, skip) ==
    /\ Range(docs) \subseteq Live
    /\ Cardinality(Range(docs)) = Len(docs)
    /\ Len(docs) = IF Cardinality(Live) <= skip THEN 0
                   ELSE Min(limit, Cardinality(Live) - skip)
    /\ \A k \in 1..Len(docs) :
          /\ Cardinality({ m \in Live : m.timestamp > docs[k].timestamp }) < skip + k
          /\ Cardinality({ m \in Live : m.timestamp >= docs[k].timestamp }) >= skip + k

\* The wire form of `docs` for `viewer`, oldest first.
IsOldestFirstFor(wires, docs, viewer) ==
    /\ Len(wires) = Len(docs)
    /\ \A k \in 1..Len(wires) :
          /\ wires[k]._id = docs[Len(docs) + 1 - k]._id
          /\ wires[k].content = docs[Len(docs) + 1 - k].content
          /\ wires[k].timestamp = docs[Len(docs) + 1 - k].timestamp
          /\ wires[k].username = ANONYMOUS
          /\ wires[k].isOwnMessage <=> (docs[Len(docs) + 1 - k].userId.oid = viewer)
    /\ \A j, k \in 1..Len(wires) : j < k => wires[j].timestamp <= wires[k].timestamp

\* C11 - History snapshot: when the user lookup and the history query of a
\* connection's handshake succeed, the query takes the (at most) 50 most
\* recent messages with isDeleted=false, and the handler emits
\* recent_messages once, to the connecting socket only, with those messages
\* oldest-first and anonymized against the connecting identity; no other
\* step emits recent_messages and the handler never runs again.
C11_HistorySnapshot ==
    [][ \A c \in Sockets :
          /\ ( pc[c] = "find" /\ pc'[c] = "found" /\ FindExec(c)
               /\ recentMessages'[c].ok )
             => IsRecentWindow(recentMessages'[c].docs, 50, 0)
          /\ ( pc[c] = "found" /\ pc'[c] = "active" /\ FindResume(c)
               /\ recentMessages[c].ok /\ status[c] = "open" )
             => /\ Len(NewEvents(c)) = 1
                /\ NewEvents(c)[1].type = "recent_messages"
                /\ IsOldestFirstFor(NewEvents(c)[1].payload,
                                    recentMessages[c].docs, sockUserId[c])
                /\ \A d \in Sockets \ {c} : outbox'[d] = outbox[d]
          /\ ( \E k \in 1..Len(NewEvents(c)) : NewEvents(c)[k].type = "recent_messages" )
             => pc[c] = "found" /\ pc'[c] = "active"
          /\ pc[c] = "active" => pc'[c] = "active" ]_vars

\* A connection is being sent a snapshot of 50 messages, some its own and
\* some not, out of a collection that holds more.
C11_Witness ==
    \E c \in Sockets :
        /\ outbox[c] # << >>
        /\ Head(outbox[c]).type = "recent_messages"
        /\ Len(Head(outbox[c]).payload) = 50
        /\ Cardinality(Live) > 50
        /\ \E m \in store : m.isDeleted
        /\ \E j, k \in 1..50 : /\ Head(outbox[c]).payload[j].isOwnMessage
                               /\ ~Head(outbox[c]).payload[k].isOwnMessage

\* C12 as stated - ordering round-trip: messages inserted one after another
\* come back in insertion order from the most-recent-first query, reversed
\* (the query of the snapshot and of GET /api/chat/messages).  Stated per
\* insert: every result of the query over the collection after an insert,
\* reversed, is a reversed result from before the insert with the inserted
\* message appended.
C12_OrderingRoundTrip ==
    [][ \A i \in 1..MaxOps :
          ( /\ i \in DOMAIN pending
            /\ pending[i].stage = "saving"
            /\ store' # store
            /\ SaveExec(i) )
          => \A q \in FindRecent(store', Cardinality(store'), 0) :
                \E q0 \in FindRecent(store, Cardinality(store), 0) :
                    Reverse(q) = Append(Reverse(q0), pending[i].message) ]_vars

\* The client's list once it has handled the given events.
RECURSIVE Deliver(_, _)
Deliver(prev, events) ==
    IF events = << >> THEN prev
    ELSE Deliver( IF Head(events).type = "new_message"
                  THEN OnNewMessage(prev, Head(events).payload[1])
                  ELSE IF Head(events).type = "recent_messages"
                  THEN OnRecentMessages(prev, Head(events).payload)
                  ELSE prev,
                  Tail(events) )

\* The entries of a list for the message with the given _id.
EntriesFor(q, id) == { q[k] : k \in { j \in 1..Len(q) : q[j]._id = id } }

\* The step in which a send handler (socket or POST) fans its saved message out.
AnyFanOutStep(i) ==
    /\ i \in DOMAIN pending
    /\ pending[i].stage = "saved"
    /\ \/ pending[i].kind = "socket" /\ SendResume(i)
       \/ pending[i].kind = "rest" /\ RestSendResume(i)

\* C13 as stated - multi-tab synchronization: when one identity has two
\* live connections (both handshakes done, the user found), each message
\* fanned out afterwards, from a socket or from POST /api/chat/send, reaches
\* both, and both clients list it once with the same isOwnMessage.
C13_MultiTabSync ==
    [][ \A i \in 1..MaxOps : AnyFanOutStep(i) =>
          \A c, d \in Sockets :
             ( /\ c # d
               /\ Active(c) /\ Active(d)
               /\ sockUserName[c] # NULL /\ sockUserName[d] # NULL
               /\ sockUserId[c] = sockUserId[d] )
             => /\ EntriesFor(Deliver(messages[c], NewEvents(c)), i) # {}
                /\ EntriesFor(Deliver(messages[c], NewEvents(c)), i)
                     = EntriesFor(Deliver(messages[d], NewEvents(d)), i) ]_vars

\* C14 - REST page read: GET /api/chat/messages with limit L and page P
\* (positive integers) queries the window of L messages from offset (P-1)*L
\* of the most-recent-first list of the messages with isDeleted=false, and
\* answers 200 with that window oldest-first, each message anonymized
\* against the requesting identity; no soft-deleted message is in any page.
C14_RestPageRead ==
    [][ /\ \A t \in SignedTokens, l, p \in QueryParams :
             ( /\ l.defined /\ l.n >= 1 /\ p.defined /\ p.n >= 1
               /\ issued' = issued + 1
               /\ RestGet(t, l, p) )
             => /\ (issued + 1) \in DOMAIN pending'
                /\ pending'[issued + 1].limit = l.n
                /\ pending'[issued + 1].skip = (p.n - 1) * l.n
                /\ pending'[issued + 1].userId = t.userId
        /\ \A i \in 1..MaxOps :
             ( /\ i \in DOMAIN pending
               /\ pending[i].kind = "get" /\ pending[i].stage = "find"
               /\ GetExec(i)
               /\ pending'[i].found.ok )
             => IsRecentWindow(pending'[i].found.docs, pending[i].limit, pending[i].skip)
        /\ \A i \in 1..MaxOps :
             ( /\ i \in DOMAIN pending
               /\ pending[i].kind = "get" /\ pending[i].stage = "found"
               /\ pending[i].found.ok
               /\ GetResume(i) )
             => /\ response'.status = 200
                /\ IsOldestFirstFor(response'.messages, pending[i].found.docs,
                                    pending[i].userId)
                /\ \A k \in 1..Len(response'.messages) :
                      ~\E m \in store : m.isDeleted /\ m._id = response'.messages[k]._id
                /\ response'.hasMore = (Len(pending[i].found.docs) = pending[i].limit) ]_vars

\* The second page of two is being answered: one message, the oldest of
\* three, out of a collection that also holds a soft-deleted one.
C14_Witness ==
    /\ response.kind = "get" /\ response.status = 200
    /\ Cardinality(Live) = 3
    /\ \E m \in store : m.isDeleted
    /\ Len(response.messages) = 1
    /\ \A m \in Live : m.timestamp >= response.messages[1].timestamp
    /\ ~response.hasMore

\* C15 - Online count is constant: whatever the live connections and the
\* connectedUsers entries, an authenticated GET /api/chat/users-online is
\* answered 200 {count: 0, users: []} (an unauthenticated one is refused by
\* the middleware, 401 or 403, with no count at all), and no response ever
\* carries another count or a user.
C15_OnlineCountZero ==
    [][ /\ \A t \in Tokens :
             ( issued' = issued + 1 /\ RestUsersOnline(t) )
             => IF t.kind = "signed"
                THEN /\ response'.kind = "online"
                     /\ response'.status = 200
                     /\ response'.hasCount
                     /\ response'.count = 0
                     /\ response'.users = << >>
                ELSE /\ response'.status \in {401, 403}
                     /\ ~response'.hasCount
        /\ response'.hasCount => response'.count = 0 /\ response'.users = << >> ]_vars

\* The count is being answered while two connections are live and the
\* directory has two entries.
C15_Witness ==
    /\ response.kind = "online" /\ response.hasCount
    /\ \A c \in Sockets : Active(c) /\ Registered(c)
    /\ Cardinality(DOMAIN connectedUsers) = 2

\* The step in which POST /api/period/start handler i answers.
PeriodAnswered(i) == i \in DOMAIN periodRequests /\ i \notin DOMAIN periodRequests'

\* C16 as stated - logging a period: an authenticated POST /api/period/start
\* with a start date not in the future is not rejected and is answered 201;
\* when it is answered the user has exactly one active cycle, starting on
\* the given date, and the cycle found active before is inactive with
\* cycleLength the number of days between the two start dates.  A start date
\* in the future is answered 400 with the stored cycles unchanged.
C16_LoggingAPeriod ==
    [][ /\ \A t \in SignedTokens, d \in PeriodDates :
             ( d.defined /\ issued' = issued + 1 /\ PeriodStart(t, d) )
             => IF d.day <= Today
                THEN /\ (issued + 1) \in DOMAIN periodRequests'
                     /\ response' = response
                     /\ periods' = periods
                ELSE /\ response'.status = 400
                     /\ periodRequests' = periodRequests
                     /\ periods' = periods
        /\ \A i \in 1..MaxOps : PeriodAnswered(i) =>
             LET r == periodRequests[i]
                 mine == { p \in periods' : p.userId.oid = r.userId }
             IN  /\ response'.status = 201
                 /\ Cardinality({ p \in mine : p.isActive }) = 1
                 /\ \A p \in mine : p.isActive => p.startDate = r.startDate
                 /\ r.hasActive =>
                       \E p \in mine :
                          /\ p._id = r.activeCycle._id
                          /\ ~p.isActive
                          /\ p.cycleLength = Number(Abs(r.startDate - p.startDate)) ]_vars

\* The connectedUsers entries whose socket is connected when read.
LiveEntries == { u \in DOMAIN connectedUsers : status[connectedUsers[u].socketId] = "open" }

\* C17 - Targeted fan-out: when a send_message handler fans its saved
\* message out, the socket of every connectedUsers entry gets exactly one
\* targeted new_message, the first event of the step on that socket, with
\* isOwnMessage computed against the entry's own identity (true for the
\* author's entry, false for every other), and the fallback copy
\* (isOwnMessage=false) comes after it; a socket no entry names gets no
\* targeted copy.
C17_TargetedFanOut ==
    [][ \A i \in 1..MaxOps : FanOutStep(i) =>
          /\ \A u \in LiveEntries :
                LET c == connectedUsers[u].socketId
                IN  /\ Len(NewEvents(c)) = 2
                    /\ NewEvents(c)[1].type = "new_message"
                    /\ NewEvents(c)[1].payload[1]._id = pending[i].message._id
                    /\ NewEvents(c)[1].payload[1].content = pending[i].message.content
                    /\ NewEvents(c)[1].payload[1].isOwnMessage <=> (u = pending[i].userId)
                    /\ NewEvents(c)[2].type = "new_message"
                    /\ NewEvents(c)[2].payload[1]._id = pending[i].message._id
                    /\ ~NewEvents(c)[2].payload[1].isOwnMessage
          /\ \A c \in Sockets :
                ~Registered(c) => Len(NewEvents(c)) <= 1 ]_vars

\* Both entries' sockets hold the targeted copy and then the fallback copy
\* of one message: the author's targeted copy is flagged, the other is not.
C17_Witness ==
    /\ Cardinality(LiveEntries) = 2
    /\ \A u \in LiveEntries :
          /\ Len(outbox[connectedUsers[u].socketId]) = 2
          /\ outbox[connectedUsers[u].socketId][1].type = "new_message"
          /\ outbox[connectedUsers[u].socketId][2].type = "new_message"
          /\ ~outbox[connectedUsers[u].socketId][2].payload[1].isOwnMessage
    /\ \E a \in LiveEntries :
          /\ outbox[connectedUsers[a].socketId][1].payload[1].isOwnMessage
          /\ \E m \in store : m.userId.oid = a
                              /\ m._id = outbox[connectedUsers[a].socketId][1].payload[1]._id
    /\ \E b \in LiveEntries :
          ~outbox[connectedUsers[b].socketId][1].payload[1].isOwnMessage

\* C18 - Fallback delivery guarantee: when a send_message handler fans
\* its persisted message out, every connection that is live, with or without
\* a connectedUsers entry, gets the message: the last event of the step on
\* its socket is the fallback new_message, anonymized with a null viewer
\* (isOwnMessage=false), and once the client has handled the step's events
\* the message is in its list.
C18_FallbackDelivery ==
    [][ \A i \in 1..MaxOps : FanOutStep(i) =>
          /\ pending[i].message \in store
          /\ \A c \in Sockets : status[c] = "open" =>
                /\ Len(NewEvents(c)) >= 1
                /\ NewEvents(c)[Len(NewEvents(c))].type = "new_message"
                /\ NewEvents(c)[Len(NewEvents(c))].payload[1]._id = pending[i].message._id
                /\ NewEvents(c)[Len(NewEvents(c))].payload[1].content
                      = pending[i].message.content
                /\ NewEvents(c)[Len(NewEvents(c))].payload[1].username = ANONYMOUS
                /\ ~NewEvents(c)[Len(NewEvents(c))].payload[1].isOwnMessage
                /\ EntriesFor(Deliver(messages[c], NewEvents(c)), i) # {} ]_vars

\* A connection whose entry was replaced by a second connection of its
\* identity holds the fallback copy alone; the other holds both copies.
C18_Witness ==
    \E c, d \in Sockets :
        /\ c # d
        /\ Active(c) /\ Active(d)
        /\ sockUserId[c] = sockUserId[d]
        /\ sockUserName[c] # NULL
        /\ ~Registered(c) /\ Registered(d)
        /\ Len(outbox[c]) = 1
        /\ outbox[c][1].type = "new_message"
        /\ ~outbox[c][1].payload[1].isOwnMessage
        /\ Len(outbox[d]) = 2
        /\ \E m \in store : m._id = outbox[c][1].payload[1]._id

\* C19 as stated - disconnect leaves no stale entry: connectedUsers never
\* holds an entry whose socketId is that of a connection that has
\* disconnected.
C19_NoStaleEntry ==
    \A c \in Sockets : status[c] = "closed" => ~Registered(c)

\* send_message handlers i and j of one connection, i received first, both
\* past validation with their documents built.
SentInOrder(i, j) ==
    /\ i < j
    /\ i \in DOMAIN pending /\ j \in DOMAIN pending
    /\ pending[i].kind = "socket" /\ pending[j].kind = "socket"
    /\ pending[i].sock = pending[j].sock

\* m1 precedes m2 in the stored timestamp order.
C20_StoredOrder ==
    \A i, j \in 1..MaxOps :
        SentInOrder(i, j) => pending[i].message.timestamp < pending[j].message.timestamp

\* m2 is not fanned out while m1, persisted, still waits for its fan-out.
C20_DeliveryOrder ==
    [][ \A i, j \in 1..MaxOps :
          ( SentInOrder(i, j) /\ FanOutStep(j) ) => pending[i].stage # "saved" ]_vars

\* C20 as stated - per-sender ordering: when one connection sends m1 and
\* then m2, both accepted, m1 precedes m2 in the stored timestamp order and
\* the new_message events of m2 are not emitted before those of m1, however
\* the two store writes interleave.
C20_PerSenderOrdering ==
    [][ \A i, j \in 1..MaxOps :
          SentInOrder(i, j) =>
             /\ pending[i].message.timestamp < pending[j].message.timestamp
             /\ FanOutStep(j) => pending[i].stage # "saved" ]_vars

\* ---------------------------------------------------------------- C21
\* The results the server's history queries hold at this moment: a
\* connection handler's snapshot and a GET handler's page, each between its
\* query and its resumption.
QueryResults ==
    { recentMessages[c].docs : c \in { d \in Sockets : pc[d] = "found" } }
      \cup { pending[i].found.docs :
               i \in { j \in DOMAIN pending : pending[j].kind = "get"
                                               /\ pending[j].stage = "found" } }

Position(q, m) == CHOOSE k \in 1..Len(q) : q[k] = m

\* C21: two messages with equal timestamps come back in the same relative
\* order from every query (snapshot and every REST page) that returns both.
C21_StableTotalOrder ==
    \A q1 \in QueryResults : \A q2 \in QueryResults :
        \A m \in Range(q1) \cap Range(q2) : \A n \in Range(q1) \cap Range(q2) :
            (m.timestamp = n.timestamp /\ m # n)
                => ( (Position(q1, m) < Position(q1, n))
                       <=> (Position(q2, m) < Position(q2, n)) )

\* ---------------------------------------------------------------- C22
\* C22: when the store write of a validated send_message fails, nothing is
\* stored; the handler's resumption puts exactly one error event, "Failed
\* to send message", on the sender's socket and nothing on any other
\* socket, so no new_message is emitted for that send; the handler ends
\* without a second write; the connections and connectedUsers are as before.
C22_StoreFailure ==
    [][ \A i \in 1..MaxOps :
          ( /\ i \in DOMAIN pending
            /\ pending[i].kind = "socket"
            /\ pending[i].stage = "saveFailed"
            /\ i \notin DOMAIN pending'
            /\ SendResume(i)
            /\ status[pending[i].sock] = "open" )
          => /\ NewEvents(pending[i].sock) = << ErrorEvent("Failed to send message") >>
             /\ \A d \in Sockets \ {pending[i].sock} : outbox'[d] = outbox[d]
             /\ store' = store
             /\ \A m \in store' : m._id # i
             /\ \A j \in DOMAIN pending' : pending'[j].message._id # i
             /\ status' = status /\ pc' = pc
             /\ connectedUsers' = connectedUsers ]_vars

\* A sender holding the one error event of a failed write while another
\* connection is live and has received nothing.
C22_Witness ==
    \E c \in Sockets : \E d \in Sockets \ {c} :
        /\ outbox[c] = << ErrorEvent("Failed to send message") >>
        /\ Active(c) /\ Active(d)
        /\ outbox[d] = << >>
        /\ store = {}
        /\ issued = 1

\* ---------------------------------------------------------------- C23
\* C23: a typing event from a registered connection puts one user_typing
\* signal, carrying the name "Someone" and the sender's isTyping flag and
\* nothing else, on every other live connection and nothing on the sending
\* connection; the message store and connectedUsers are left as they were.
C23_TypingRelay ==
    [][ \A c \in Sockets : \A b \in BOOLEAN :
          ( Active(c) /\ Typing(c, b) )
          => /\ \A d \in Sockets \ {c} :
                   NewEvents(d) =
                     IF status[d] = "open"
                     THEN << [type |-> "user_typing",
                              payload |-> << [username |-> "Someone", isTyping |-> b] >>] >>
                     ELSE << >>
             /\ NewEvents(c) = << >>
             /\ store' = store
             /\ connectedUsers' = connectedUsers ]_vars

\* The signal is on the other live connection and not on the sender's,
\* with messages in the store and both identities registered.
C23_Witness ==
    /\ Active(1) /\ status[2] = "open"
    /\ sockUserId[1] # sockUserId[2]
    /\ outbox[1] = << >>
    /\ outbox[2] = << TypingEvent(TRUE) >>
    /\ Cardinality(store) > 1
    /\ Cardinality(DOMAIN connectedUsers) = 2

\* ---------------------------------------------------------------- C24
\* C24: when the server rejects a send that the chat page submitted (it
\* puts an error event for it on the sender's socket), the page's input
\* field holds the text the user submitted.
C24_InputPreserved ==
    [][ \A i \in 1..MaxOps :
          ( /\ i \in DOMAIN pending
            /\ pending[i].kind = "socket"
            /\ pending[i].stage = "saveFailed"
            /\ status[pending[i].sock] = "open"
            /\ SendResume(i) )
          => Trim(input'[pending[i].sock]) = pending[i].message.content ]_vars

\* ---------------------------------------------------------------- C25
\* This step puts a new_message event on some socket.
EmitsNewMessage ==
    \E c \in Sockets : \E k \in 1..Len(NewEvents(c)) : NewEvents(c)[k].type = "new_message"

\* This step reports failure to the caller of send i: an error event on the
\* sender's socket, or a 4xx/5xx response to POST /api/chat/send.
ReportsFailure(i) ==
    \/ /\ response' # response
       /\ response'.kind = "send"
       /\ response'.status >= 400
       /\ \/ issued' = issued + 1 /\ i = issued + 1
          \/ i \in DOMAIN pending /\ pending[i].kind = "rest" /\ i \notin DOMAIN pending'
    \/ /\ \E c \in Sockets : \E k \in 1..Len(NewEvents(c)) : NewEvents(c)[k].type = "error"
       /\ \/ issued' = issued + 1 /\ i = issued + 1
          \/ i \in DOMAIN pending /\ pending[i].kind = "socket" /\ i \notin DOMAIN pending'

\* C25: whenever a send reports failure to its caller (an error event on
\* the socket path, a 4xx/5xx response on the REST path), the store holds
\* no message of that send and the step emits no new_message.
C25_FailureNoEffect ==
    [][ \A i \in 1..MaxOps :
          ReportsFailure(i) => /\ \A m \in store' : m._id # i
                               /\ ~EmitsNewMessage ]_vars

\* ---------------------------------------------------------------- C26
\* C26: every connection whose handshake has completed (its user was found
\* and its handlers are registered) and which has not disconnected has its
\* identity as a key of connectedUsers, and the socketId under that key
\* names a live connection of the same identity.
C26_PresenceCoversLive ==
    \A c \in Sockets :
        (Active(c) /\ sockUserName[c] # NULL)
            => /\ sockUserId[c] \in DOMAIN connectedUsers
               /\ status[connectedUsers[sockUserId[c]].socketId] = "open"
               /\ sockUserId[connectedUsers[sockUserId[c]].socketId] = sockUserId[c]

\* ---------------------------------------------------------------- C27
\* C27: a page that GET /api/chat/messages returns has hasMore = true if
\* and only if the store holds a non-deleted message older than every
\* message of the page.
C27_HasMoreExact ==
    [][ \A i \in 1..PagingOps :
          ( /\ i \in DOMAIN pending
            /\ pending[i].kind = "get" /\ pending[i].stage = "found"
            /\ pending[i].found.ok
            /\ pending[i].found.docs # << >>
            /\ GetResume(i) )
          => ( response'.hasMore
                 <=> \E m \in Live :
                        \A d \in Range(pending[i].found.docs) :
                            m.timestamp < d.timestamp ) ]_vars

\* ---------------------------------------------------------------- C28
\* Request i has read page p and request j, of the same client and with
\* the same limit, is about to read page p+1.
NextPageOf(i, j) ==
    /\ i \in DOMAIN pending /\ j \in DOMAIN pending
    /\ i < j
    /\ pending[i].kind = "get" /\ pending[i].stage = "found" /\ pending[i].found.ok
    /\ pending[j].kind = "get" /\ pending[j].stage = "find"
    /\ pending[j].userId = pending[i].userId
    /\ pending[j].limit = pending[i].limit
    /\ pending[j].skip = pending[i].skip + pending[i].limit

\* Another user's message was appended after request i, reading page 1,
\* ran its query: it is newer than everything that query returned.
AppendedSince(i) ==
    /\ pending[i].skip = 0
    /\ pending[i].found.docs # << >>
    /\ \E m \in Live :
          /\ m.userId.oid # pending[i].userId
          /\ \A d \in Range(pending[i].found.docs) : m.timestamp > d.timestamp

\* C28: a client reads page p and then page p+1 with the same limit while
\* other users append messages in between: no message is in both pages,
\* and no message of the history that lies between a message of page p
\* and a message of page p+1 is left out of both.
C28_PagesUnderInserts ==
    [][ \A i \in 1..PagingOps : \A j \in 1..PagingOps :
          ( /\ NextPageOf(i, j)
            /\ AppendedSince(i)
            /\ GetExec(j)
            /\ pending'[j].found.ok )
          => LET first == Range(pending[i].found.docs)
                 second == Range(pending'[j].found.docs)
             IN  /\ { m._id : m \in first } \cap { m._id : m \in second } = {}
                 /\ \A m \in Live :
                       ( /\ m._id < 0
                         /\ \E a \in first : m.timestamp < a.timestamp
                         /\ \E b \in second : m.timestamp > b.timestamp )
                       => m \in first \cup second ]_vars

\* ---------------------------------------------------------------- C29
\* C29: when a client applies the recent_messages snapshot of its
\* connection, every message it has already received through new_message
\* is still in its message list.
C29_SnapshotKeepsLive ==
    [][ \A c \in Sockets :
          ( /\ outbox[c] # << >>
            /\ Head(outbox[c]).type = "recent_messages"
            /\ ClientReceive(c) )
          => \A k \in 1..Len(messages[c]) :
                \E n \in 1..Len(messages'[c]) : messages'[c][n]._id = messages[c][k]._id ]_vars

\* ---------------------------------------------------------------- C30
\* C30: each user has at most one Period with isActive = true.
C30_SingleActiveCycle ==
    \A u \in Users : Cardinality(ActiveCycles(periods, u)) <= 1
====
